---- MODULE Spec2Model ----
(***************************************************************************)
(* HyperDeck transport control (src/v2.py, src/blackmagic-transport.py):   *)
(* the HTTP client with retry and backoff, the connection tracker, the     *)
(* memoized transport read, the poll loop and the command handlers.        *)
(*                                                                         *)
(* Text is a sequence of one-character strings, so that strip, prefix and  *)
(* suffix tests are computed and not assumed.  Times are in milliseconds.  *)
(***************************************************************************)
EXTENDS Integers, Sequences, FiniteSets, TLC

VARIABLES
    client,               \* HyperDeckGUI.client: [id, base_url]; id tells instances apart
    cache,                \* the lru_cache of get_transport, least recently used first
    connection_manager,   \* HyperDeckGUI.connection_manager: [is_connected, age]
    transport_idx,        \* HyperDeckGUI.transport_idx
    idx_var,              \* text of the Transport Index spinbox
    deck_var,             \* selected deck name
    base_url_var,         \* text of the Base URL entry
    last_custom_url,      \* HyperDeckGUI.last_custom_url
    last_transport_json,  \* HyperDeckGUI.last_transport_json
    state_var,            \* displayed state
    tc_var,               \* displayed timecode
    clip_var,             \* displayed clip name
    connection_var,       \* displayed connection label
    timers,               \* pending after() callbacks of refresh_state: ms left
    device,               \* body the device answers GET transports/{idx} with
    cmdSince,             \* indices commanded successfully since their last get_transport
    lastOp,               \* what the last handler did (requests sent, dialogs, timers)
    rw,                   \* SpecRetry: the running _request_with_retry loop
    hc,                   \* SpecRetry: what health_check made of that loop's end
    call                  \* SpecPure: one function applied to one input: [fn, arg, out]

guiVars == <<client, cache, connection_manager, transport_idx, idx_var, deck_var,
             base_url_var, last_custom_url, last_transport_json, state_var, tc_var,
             clip_var, connection_var, timers, device, cmdSince, lastOp>>
retryVars == <<rw, hc>>
vars == <<guiVars, retryVars, call>>

(***************************************************************************)
(* Config (src/v2.py 37-53) and ConnectionManager.connection_check_interval *)
(***************************************************************************)
POLL_INTERVAL_MS == 1000
POLL_INTERVAL_MS_DISCONNECTED == 5000
MAX_RETRIES == 3
connection_check_interval == 5000
lru_maxsize == 128

\* model bounds
MaxClients == 2

(***************************************************************************)
(* Text: a sequence of one-character strings.  "EMDASH" is the single      *)
(* character U+2014.                                                       *)
(***************************************************************************)
sDash == <<"EMDASH">>
sOffline == <<"O", "f", "f", "l", "i", "n", "e">>
sError == <<"E", "r", "r", "o", "r">>
sNetworkError == <<"N", "e", "t", "w", "o", "r", "k", " ", "E", "r", "r", "o", "r">>
sUnknown == <<"U", "n", "k", "n", "o", "w", "n">>
sRecording == <<"R", "e", "c", "o", "r", "d", "i", "n", "g">>
sPlaying == <<"P", "l", "a", "y", "i", "n", "g">>
sStopped == <<"S", "t", "o", "p", "p", "e", "d">>
sUnnamed == <<"U", "n", "n", "a", "m", "e", "d">>
sZeroTc == <<"0", "0", ":", "0", "0", ":", "0", "0", ":", "0", "0">>
sConnected == <<"C", "o", "n", "n", "e", "c", "t", "e", "d">>
sDisconnected == <<"D", "i", "s", "c", "o", "n", "n", "e", "c", "t", "e", "d">>
sChecking == <<"C", "h", "e", "c", "k", "i", "n", "g", ".", ".", ".">>
sTrue == <<"t", "r", "u", "e">>
sYes == <<"y", "e", "s">>
sOn == <<"o", "n">>
sPyTrue == <<"T", "r", "u", "e">>
sPyFalse == <<"F", "a", "l", "s", "e">>
sPyNone == <<"N", "o", "n", "e">>
sUpper == <<"A", "B", "C", "D", "E", "F", "G", "H", "I", "J", "K", "L", "M", "N", "O", "P", "Q", "R", "S", "T", "U", "V", "W", "X", "Y", "Z">>
sLower == <<"a", "b", "c", "d", "e", "f", "g", "h", "i", "j", "k", "l", "m", "n", "o", "p", "q", "r", "s", "t", "u", "v", "w", "x", "y", "z">>
sDigits == <<"0", "1", "2", "3", "4", "5", "6", "7", "8", "9">>

Whitespace == {" ", "\t", "\n", "\r"}

\* not s.strip(): nothing but whitespace
IsBlank(s) == \A i \in 1..Len(s) : s[i] \in Whitespace

RECURSIVE LStrip(_)
LStrip(s) == IF s # <<>> /\ Head(s) \in Whitespace THEN LStrip(Tail(s)) ELSE s

RECURSIVE RStrip(_)
RStrip(s) ==
    IF s # <<>> /\ s[Len(s)] \in Whitespace THEN RStrip(SubSeq(s, 1, Len(s) - 1)) ELSE s

\* str.strip()
Strip(s) == RStrip(LStrip(s))

LowerChar(c) ==
    IF \E i \in 1..Len(sUpper) : sUpper[i] = c
    THEN sLower[CHOOSE i \in 1..Len(sUpper) : sUpper[i] = c]
    ELSE c

\* str.lower()
Lower(s) == [i \in 1..Len(s) |-> LowerChar(s[i])]

RECURSIVE Decimal(_)
\* the decimal digits of n >= 0
Decimal(n) ==
    IF n < 10 THEN <<sDigits[n + 1]>>
    ELSE Decimal(n \div 10) \o <<sDigits[(n % 10) + 1]>>

\* str(n) of an int
IntText(n) == IF n < 0 THEN <<"-">> \o Decimal(0 - n) ELSE Decimal(n)

\* f"{n:02d}": at least two characters, the sign counted, zero-padded
Format02d(n) ==
    IF n < 0 THEN <<"-">> \o Decimal(0 - n)
    ELSE IF n < 10 THEN <<"0">> \o Decimal(n)
    ELSE Decimal(n)

IsDigits(s) == s # <<>> /\ \A i \in 1..Len(s) : \E d \in 1..Len(sDigits) : sDigits[d] = s[i]

DigitValue(c) == (CHOOSE d \in 1..Len(sDigits) : sDigits[d] = c) - 1

RECURSIVE IntOfDigits(_)
IntOfDigits(s) ==
    IF s = <<>> THEN 0
    ELSE IntOfDigits(SubSeq(s, 1, Len(s) - 1)) * 10 + DigitValue(s[Len(s)])

(***************************************************************************)
(* JSON values as json.loads returns them: every value carries its Python  *)
(* type in t.  A dict is a function from its keys.                         *)
(***************************************************************************)
JStr(s) == [t |-> "str", v |-> s]
JInt(n) == [t |-> "int", v |-> n]
JBool(b) == [t |-> "bool", v |-> b]
JNull == [t |-> "null", v |-> 0]
JList(items) == [t |-> "list", v |-> items]
JDict(f) == [t |-> "dict", v |-> f]
EmptyDict == JDict(<<>>)

\* d.get(key) of a dict: None for a missing key
Get(d, key) == IF key \in DOMAIN d.v THEN d.v[key] ELSE JNull

\* x has a .get method (anything else raises AttributeError on x.get)
HasGet(x) == x.t = "dict"

\* bool(x) is False
Falsy(x) ==
    \/ x.t = "null"
    \/ x.t = "bool" /\ ~x.v
    \/ x.t = "int" /\ x.v = 0
    \/ x.t \in {"str", "list", "dict"} /\ DOMAIN x.v = {}

\* isinstance(value, str) and value.strip()
IsNonBlankStr(x) == x.t = "str" /\ ~IsBlank(x.v)

\* isinstance(value, (int, float)): bool is a subclass of int
IsNumber(x) == x.t \in {"int", "bool"}

\* int(value)
IntOf(x) == IF x.t = "bool" THEN (IF x.v THEN 1 ELSE 0) ELSE x.v

\* str(x); the text of a list or dict starts with its bracket
PyStr(x) ==
    IF x.t = "str" THEN x.v
    ELSE IF x.t = "int" THEN IntText(x.v)
    ELSE IF x.t = "bool" THEN (IF x.v THEN sPyTrue ELSE sPyFalse)
    ELSE IF x.t = "null" THEN sPyNone
    ELSE IF x.t = "list" THEN <<"[", "]">>
    ELSE <<"{", "}">>

(***************************************************************************)
(* State derivation (src/v2.py 284-331)                                    *)
(***************************************************************************)
StateKeys == <<"status", "state", "transport", "transportState", "transportMode",
               "mode", "playbackStatus">>
TimecodeKeys == <<"position", "timecode", "time", "tc", "currentTimecode">>
ClipNameKeys == <<"name", "clipName", "title", "filename">>

truthy(x) == Lower(PyStr(x)) \in {<<"1">>, sTrue, sYes, sOn}

\* the scan keeping the last usable key instead of the first
LastNonBlank(d, keys, i) ==
    LET usable == {j \in i..Len(keys) : IsNonBlankStr(Get(d, keys[j]))} IN
    IF usable = {} THEN 0 ELSE CHOOSE j \in usable : \A m \in usable : m <= j

RECURSIVE FirstNonBlank(_, _, _)
\* the for loop "if isinstance(value, str) and value.strip(): return value":
\* the index in keys of the first such value, 0 when the loop falls through
FirstNonBlank(d, keys, i) ==
    IF i > Len(keys) THEN 0
    ELSE IF IsNonBlankStr(Get(d, keys[i])) THEN i
    ELSE FirstNonBlank(d, keys, i + 1)

derive_state(transport_data) ==
    LET i == FirstNonBlank(transport_data, StateKeys, 1) IN
    IF i > 0 THEN Get(transport_data, StateKeys[i]).v
    ELSE IF truthy(Get(transport_data, "isRecording")) \/ truthy(Get(transport_data, "recording"))
    THEN sRecording
    ELSE IF truthy(Get(transport_data, "isPlaying")) \/ truthy(Get(transport_data, "playing"))
    THEN sPlaying
    ELSE IF truthy(Get(transport_data, "isStopped")) \/ truthy(Get(transport_data, "stopped"))
    THEN sStopped
    ELSE sUnknown

FormatSeconds(n) ==
    LET hours == n \div 3600
        remainder == n % 3600
        minutes == remainder \div 60
        seconds == remainder % 60
    IN Format02d(hours) \o <<":">> \o Format02d(minutes) \o <<":">>
         \o Format02d(seconds) \o <<":", "0", "0">>

RECURSIVE TimecodeFrom(_, _)
TimecodeFrom(d, i) ==
    IF i > Len(TimecodeKeys) THEN sZeroTc
    ELSE LET value == Get(d, TimecodeKeys[i]) IN
         IF IsNonBlankStr(value) THEN value.v
         ELSE IF IsNumber(value) THEN FormatSeconds(IntOf(value))
         ELSE TimecodeFrom(d, i + 1)

derive_timecode(transport_data) == TimecodeFrom(transport_data, 1)

\* clip_info is None here for an absent clip (JNull)
derive_active_clip_name(clip_info) ==
    IF Falsy(clip_info) THEN sDash
    ELSE LET i == FirstNonBlank(clip_info, ClipNameKeys, 1) IN
         IF i > 0 THEN Get(clip_info, ClipNameKeys[i]).v ELSE sUnnamed

\* the derive functions call .get on their argument: AttributeError otherwise
DeriveStateRaises(transport_data) == ~HasGet(transport_data)
DeriveTimecodeRaises(transport_data) == ~HasGet(transport_data)
DeriveClipNameRaises(clip_info) == ~Falsy(clip_info) /\ ~HasGet(clip_info)

(***************************************************************************)
(* One HTTP attempt, as requests sees it: a response with a status code,   *)
(* or a network failure (requests.Timeout, requests.ConnectionError).      *)
(***************************************************************************)
StatusCodes == {200, 204, 304, 404, 500}

Response(code) == [kind |-> "response", status |-> code]
TimedOut == [kind |-> "timeout", status |-> 0]
Refused == [kind |-> "refused", status |-> 0]

Outcome == {Response(c) : c \in StatusCodes} \cup {TimedOut, Refused}

\* response.raise_for_status(): HTTPError for 400 <= status < 600
RaisesForStatus(o) == o.kind = "response" /\ o.status >= 400 /\ o.status < 600

\* the try block of one attempt ends without a requests.RequestException
AttemptSucceeds(o) == o.kind = "response" /\ ~RaisesForStatus(o)

\* the exception class an attempt ends in
ErrorOf(o) ==
    IF o.kind = "timeout" THEN "Timeout"
    ELSE IF o.kind = "refused" THEN "ConnectionError"
    ELSE IF RaisesForStatus(o) THEN "HTTPError"
    ELSE "none"

\* the same pause after every failed attempt
BackoffFlat(attempt) == 500

\* time.sleep(0.5 * (2 ** attempt)), in milliseconds
Backoff(attempt) == 500 * (2 ^ attempt)

(***************************************************************************)
(* HyperDeckClient._request_with_retry: the loop, one attempt at a time.   *)
(* pc is "running" while the for loop runs, "returned" after return        *)
(* response, "raised" after the bare raise of the last attempt.            *)
(***************************************************************************)
RetryStart(method) ==
    [pc |-> "running", method |-> method, attempt |-> 0, sent |-> 0,
     slept |-> 0, outcome |-> TimedOut]

\* the loop raises on the first failure instead of retrying
RetryStepNoRetry(st, o) ==
    [st EXCEPT !.pc = IF AttemptSucceeds(o) THEN "returned" ELSE "raised",
               !.sent = @ + 1,
               !.outcome = o]

RetryStep(st, o) ==
    IF AttemptSucceeds(o)
    THEN [st EXCEPT !.pc = "returned", !.sent = @ + 1, !.outcome = o]
    ELSE IF st.attempt = MAX_RETRIES - 1
    THEN [st EXCEPT !.pc = "raised", !.sent = @ + 1, !.outcome = o]
    ELSE [st EXCEPT !.attempt = @ + 1, !.sent = @ + 1,
                    !.slept = @ + Backoff(st.attempt),
                    !.outcome = o]

RECURSIVE RetryRun(_, _)
RetryRun(st, script) ==
    IF st.pc # "running" THEN st
    ELSE RetryRun(RetryStep(st, script[st.attempt + 1]), script)

\* the whole call, the device answering attempt i with script[i]
request_with_retry(method, script) == RetryRun(RetryStart(method), script)

(***************************************************************************)
(* HyperDeckClient.health_check                                            *)
(***************************************************************************)
\* except clause narrowed to HTTP errors: network errors escape
health_check_result_narrow(st) ==
    IF st.pc = "returned" THEN [raised |-> FALSE, value |-> st.outcome.status = 200]
    ELSE IF ErrorOf(st.outcome) = "HTTPError" THEN [raised |-> FALSE, value |-> FALSE]
    ELSE [raised |-> TRUE, value |-> FALSE]

health_check_result(st) ==
    IF st.pc = "returned"
    THEN [raised |-> FALSE, value |-> st.outcome.status = 200]
    ELSE [raised |-> FALSE, value |-> FALSE]

health_check(script) == health_check_result(request_with_retry("GET", script))

(***************************************************************************)
(* Response bodies: response.json() parses "json" and raises on the rest;  *)
(* response.content is empty for "empty".                                  *)
(***************************************************************************)
JsonBody(v) == [kind |-> "json", val |-> v]
\* a body that is not JSON; val is response.text
TextBody == [kind |-> "text", val |-> JStr(<<"O", "K">>)]
EmptyBody == [kind |-> "empty", val |-> JNull]

\* a call that sent nothing
NoLoop == [RetryStart("GET") EXCEPT !.pc = "none"]

(***************************************************************************)
(* functools.lru_cache(maxsize=128) around get_transport: one cache for    *)
(* the class, keyed by (self, idx); an exception is not cached.            *)
(***************************************************************************)
CacheFind(cch, self, idx) ==
    IF \E k \in 1..Len(cch) : cch[k].self = self /\ cch[k].idx = idx
    THEN CHOOSE k \in 1..Len(cch) : cch[k].self = self /\ cch[k].idx = idx
    ELSE 0

RemoveAt(seq, k) == SubSeq(seq, 1, k - 1) \o SubSeq(seq, k + 1, Len(seq))

\* a hit makes the entry the most recently used
CacheTouch(cch, k) == Append(RemoveAt(cch, k), cch[k])

\* a miss stores the result, dropping the least recently used entry when full
CachePut(cch, self, idx, val) ==
    LET entry == [self |-> self, idx |-> idx, val |-> val] IN
    IF Len(cch) >= lru_maxsize THEN Append(Tail(cch), entry) ELSE Append(cch, entry)

(***************************************************************************)
(* HyperDeckClient.get_transport                                           *)
(***************************************************************************)
\* the wrapped function alone, without the lru_cache decorator
get_transport_uncached(cch, self, idx, script, body) ==
    LET st == request_with_retry("GET", script) IN
    IF st.pc = "raised"
    THEN [hit |-> FALSE, err |-> ErrorOf(st.outcome), status |-> st.outcome.status,
          val |-> JNull, cache |-> cch, loop |-> st]
    ELSE IF body.kind # "json"
    THEN [hit |-> FALSE, err |-> "JSONDecodeError", status |-> st.outcome.status,
          val |-> JNull, cache |-> cch, loop |-> st]
    ELSE [hit |-> FALSE, err |-> "none", status |-> st.outcome.status,
          val |-> body.val, cache |-> cch, loop |-> st]

\* a memoization that keeps the outcome of a failed call as well
get_transport_memoizing_failure(cch, self, idx, script, body) ==
    LET k == CacheFind(cch, self, idx) IN
    IF k > 0
    THEN [hit |-> TRUE, err |-> "none", status |-> 0, val |-> cch[k].val,
          cache |-> CacheTouch(cch, k), loop |-> NoLoop]
    ELSE LET r == get_transport_uncached(cch, self, idx, script, body) IN
         [r EXCEPT !.cache = CachePut(cch, self, idx, r.val)]

get_transport(cch, self, idx, script, body) ==
    LET k == CacheFind(cch, self, idx) IN
    IF k > 0
    THEN [hit |-> TRUE, err |-> "none", status |-> 0, val |-> cch[k].val,
          cache |-> CacheTouch(cch, k), loop |-> NoLoop]
    ELSE LET r == get_transport_uncached(cch, self, idx, script, body) IN
         IF r.err = "none"
         THEN [r EXCEPT !.cache = CachePut(cch, self, idx, r.val)]
         ELSE r

(***************************************************************************)
(* HyperDeckClient.get_active_clip                                         *)
(***************************************************************************)
RECURSIVE ScanActive(_, _)
\* for clip in items: if clip.get("active") is True: return clip
\* JNull when the loop ends or clip.get raises (caught by the except)
ScanActive(items, i) ==
    IF i > Len(items) THEN JNull
    ELSE IF ~HasGet(items[i]) THEN JNull
    ELSE IF Get(items[i], "active") = JBool(TRUE) THEN items[i]
    ELSE ScanActive(items, i + 1)

\* the fallback: GET clips, then the scan; how is "fallback" or "absent"
ClipFromList(scriptL, bodyL) ==
    LET l == request_with_retry("GET", scriptL) IN
    IF l.pc = "raised" \/ bodyL.kind # "json" THEN JNull
    ELSE LET clips == bodyL.val
             items == IF clips.t = "dict" THEN Get(clips, "items") ELSE clips
         IN IF items.t = "list" THEN ScanActive(items.v, 1) ELSE JNull

\* the inner except clause missing: a failing fallback propagates
get_active_clip_unguarded(scriptA, bodyA, scriptL, bodyL) ==
    LET a == request_with_retry("GET", scriptA)
        l == request_with_retry("GET", scriptL)
    IN IF a.pc = "returned" /\ bodyA.kind = "json"
       THEN [raised |-> FALSE, how |-> "direct", val |-> bodyA.val, direct |-> a, list |-> NoLoop]
       ELSE IF l.pc = "raised" \/ bodyL.kind # "json"
       THEN [raised |-> TRUE, how |-> "absent", val |-> JNull, direct |-> a, list |-> l]
       ELSE LET c == ClipFromList(scriptL, bodyL) IN
            [raised |-> FALSE, how |-> IF c = JNull THEN "absent" ELSE "fallback",
             val |-> c, direct |-> a, list |-> l]

get_active_clip(scriptA, bodyA, scriptL, bodyL) ==
    LET a == request_with_retry("GET", scriptA) IN
    IF a.pc = "returned" /\ bodyA.kind = "json"
    THEN [raised |-> FALSE, how |-> "direct", val |-> bodyA.val, direct |-> a, list |-> NoLoop]
    ELSE LET l == request_with_retry("GET", scriptL)
             c == ClipFromList(scriptL, bodyL)
         IN [raised |-> FALSE, how |-> IF c = JNull THEN "absent" ELSE "fallback",
             val |-> c, direct |-> a, list |-> l]

(***************************************************************************)
(* HyperDeckClient._parse_response and the commands                        *)
(***************************************************************************)
\* a parser that gives up on a body that is not JSON
parse_response_json_only(status, body) ==
    IF status = 204 \/ body.kind = "empty" THEN EmptyDict
    ELSE IF body.kind = "json" THEN body.val
    ELSE JNull

parse_response(status, body) ==
    IF status = 204 \/ body.kind = "empty" THEN EmptyDict
    ELSE IF body.kind = "json" THEN body.val
    ELSE JDict([k \in {"ok", "raw"} |-> IF k = "ok" THEN JBool(TRUE) ELSE body.val])

\* a command that leaves the cache alone (no cache_clear)
CommandKeepingCache(cch, script, body) ==
    LET st == request_with_retry("POST", script) IN
    IF st.pc = "raised"
    THEN [ok |-> FALSE, err |-> ErrorOf(st.outcome), cache |-> cch, loop |-> st,
          result |-> JNull]
    ELSE [ok |-> TRUE, err |-> "none", cache |-> cch, loop |-> st,
          result |-> parse_response(st.outcome.status, body)]

\* POST, then self.get_transport.cache_clear(), then _parse_response
Command(cch, script, body) ==
    LET st == request_with_retry("POST", script) IN
    IF st.pc = "raised"
    THEN [ok |-> FALSE, err |-> ErrorOf(st.outcome), cache |-> cch, loop |-> st,
          result |-> JNull]
    ELSE [ok |-> TRUE, err |-> "none", cache |-> <<>>, loop |-> st,
          result |-> parse_response(st.outcome.status, body)]

play(cch, script, body) == Command(cch, script, body)
stop(cch, script, body) == Command(cch, script, body)
record(cch, script, body) == Command(cch, script, body)
shuttle(cch, script, body) == Command(cch, script, body)

(***************************************************************************)
(* ConnectionManager.  age is time.time() - last_connection_check, kept    *)
(* up to connection_check_interval: the code only asks whether it is less. *)
(* A new manager has last_connection_check = 0, an age beyond the window,  *)
(* and keeps the client it was made for: that is the one it probes.        *)
(* Time passes in Tick, between the callbacks; the time a callback blocks  *)
(* in the network adds to it and is left to Tick as well.                  *)
(***************************************************************************)
Saturate(ms) == IF ms > connection_check_interval THEN connection_check_interval ELSE ms

NewConnectionManager(c) ==
    [client |-> c, is_connected |-> FALSE, age |-> connection_check_interval]

\* check_connection ignoring the window: probes on every call
check_connection_always(cm, script) ==
    LET h == health_check(script) IN
    [cm |-> [cm EXCEPT !.is_connected = h.value, !.age = 0], value |-> h.value,
     probed |-> TRUE, loop |-> request_with_retry("GET", script)]

\* age in the result is the age at current_time, the start of the call
check_connection(cm, script) ==
    IF cm.age < connection_check_interval
    THEN [cm |-> cm, value |-> cm.is_connected, probed |-> FALSE, loop |-> NoLoop]
    ELSE LET h == health_check(script) IN
         [cm |-> [cm EXCEPT !.is_connected = h.value, !.age = 0], value |-> h.value,
          probed |-> TRUE, loop |-> request_with_retry("GET", script)]

get_connection_status(cm, script) ==
    LET c == check_connection(cm, script) IN
    c @@ [label |-> IF c.value THEN sConnected ELSE sDisconnected]

(***************************************************************************)
(* normalize_base_url and HyperDeckClient.__init__                         *)
(***************************************************************************)
sHttp == <<"h", "t", "t", "p", ":", "/", "/">>
sHttps == <<"h", "t", "t", "p", "s", ":", "/", "/">>
sControl == <<"/", "c", "o", "n", "t", "r", "o", "l", "/", "a", "p", "i", "/", "v", "1">>
urlDDR27 == <<"h", "t", "t", "p", ":", "/", "/", "1", "7", "2", ".", "1", "6", ".", "1", "7", ".", "5", "1", "/", "c", "o", "n", "t", "r", "o", "l", "/", "a", "p", "i", "/", "v", "1", "/">>
urlDDR28 == <<"h", "t", "t", "p", ":", "/", "/", "1", "7", "2", ".", "1", "6", ".", "1", "7", ".", "5", "2", "/", "c", "o", "n", "t", "r", "o", "l", "/", "a", "p", "i", "/", "v", "1", "/">>
sPlaceholderUrl == <<"h", "t", "t", "p", ":", "/", "/", "1", "7", "2", ".", "1", "6", ".", "1", "7", ".", "x", "x", "/", "c", "o", "n", "t", "r", "o", "l", "/", "a", "p", "i", "/", "v", "1", "/">>

StartsWith(s, prefix) == Len(s) >= Len(prefix) /\ SubSeq(s, 1, Len(prefix)) = prefix
EndsWith(s, suffix) ==
    Len(s) >= Len(suffix) /\ SubSeq(s, Len(s) - Len(suffix) + 1, Len(s)) = suffix

RECURSIVE RStripSlash(_)
\* re.sub(r"/+$", "", s) and str.rstrip("/")
RStripSlash(s) ==
    IF s # <<>> /\ s[Len(s)] = "/" THEN RStripSlash(SubSeq(s, 1, Len(s) - 1)) ELSE s

\* re.sub(r"/?$", "/", s): a final "/" matches and is replaced, and the empty
\* match at the end of the text that follows it is replaced too
SubSlashAtEnd(s) ==
    IF EndsWith(s, <<"/">>) THEN SubSeq(s, 1, Len(s) - 1) \o <<"/">> \o <<"/">>
    ELSE s \o <<"/">>

normalize_base_url(raw) ==
    LET s1 == Strip(raw)
        s2 == IF StartsWith(Lower(s1), sHttp) \/ StartsWith(Lower(s1), sHttps)
              THEN s1 ELSE sHttp \o s1
        s3 == Strip(s2)
    IN IF s1 = <<>> THEN <<>>
       ELSE IF EndsWith(Lower(s3), sControl) \/ EndsWith(Lower(s3), sControl \o <<"/">>)
       THEN SubSlashAtEnd(s3)
       ELSE RStripSlash(s3) \o sControl \o <<"/">>

\* HyperDeckClient(base_url): a new instance
HyperDeckClient(id, base_url) == [id |-> id, base_url |-> RStripSlash(base_url) \o <<"/">>]

DeckNames == {"DDR 27 (172.16.17.51)", "DDR 28 (172.16.17.52)", "Custom"}
\* Config.DECK_CHOICES
DECK_CHOICES(name) ==
    IF name = "DDR 27 (172.16.17.51)" THEN urlDDR27
    ELSE IF name = "DDR 28 (172.16.17.52)" THEN urlDDR28
    ELSE <<>>

(***************************************************************************)
(* The device and the user, as far as the handlers see them.               *)
(***************************************************************************)
sStatusStopped == <<"s", "t", "o", "p", "p", "e", "d">>
sStatePlay == <<"p", "l", "a", "y">>
sTcB == <<"0", "0", ":", "1", "0", ":", "0", "0", ":", "0", "5">>
sClipA == <<"r", "e", "e", "l", "_", "0", "0", "7">>
sClipB == <<"t", "a", "k", "e", " ", "2">>
sHostH == <<"1", "0", ".", "0", ".", "0", ".", "9">>
sUrlH == <<"h", "t", "t", "p", ":", "/", "/", "1", "0", ".", "0", ".", "0", ".", "9", "/", "c", "o", "n", "t", "r", "o", "l", "/", "a", "p", "i", "/", "v", "1", "/">>

DocStopped ==
    JDict([k \in {"status", "position"} |->
              IF k = "status" THEN JStr(sStatusStopped) ELSE JInt(3725)])
DocPlay ==
    JDict([k \in {"state", "timecode"} |->
              IF k = "state" THEN JStr(sStatePlay) ELSE JStr(sTcB)])

\* transport bodies: two documents, a JSON array, and a body that is not JSON
DeviceBodies == {JsonBody(DocStopped), JsonBody(DocPlay), JsonBody(JList(<<>>)), TextBody}

ClipA == JDict([k \in {"name"} |-> JStr(sClipA)])
ClipInactive ==
    JDict([k \in {"name", "active"} |-> IF k = "name" THEN JStr(sClipA) ELSE JBool(FALSE)])
ClipB ==
    JDict([k \in {"clipName", "active"} |-> IF k = "clipName" THEN JStr(sClipB) ELSE JBool(TRUE)])

ActiveClipBodies == {JsonBody(ClipA), TextBody}
ClipListBodies ==
    {JsonBody(JDict([k \in {"items"} |-> JList(<<ClipInactive, ClipB>>)])),
     JsonBody(JList(<<JStr(sClipA)>>)),
     TextBody}
CommandBodies == {TextBody}

ConstScript(o) == [i \in 1..MAX_RETRIES |-> o]
OkScript == ConstScript(Response(200))
FlakyScript == [i \in 1..MAX_RETRIES |-> IF i = 1 THEN Refused ELSE Response(200)]
\* what the device does with the attempts of one call
Scripts == {OkScript, FlakyScript, ConstScript(Response(500)), ConstScript(TimedOut)}

\* a command is answered at once, after one retry, or fails every attempt
CommandScripts == {OkScript, FlakyScript, ConstScript(Response(500))}
\* the clip requests either answer at once or fail every attempt
ClipScripts == {OkScript, ConstScript(Response(404))}

\* the scripts to try for a call: one is enough when the call sends nothing
ScriptsFor(sends) == IF sends THEN Scripts ELSE {OkScript}
ClipScriptsFor(sends) == IF sends THEN ClipScripts ELSE {OkScript}

IdxTexts == {<<"0">>, <<"1">>, <<>>}
RawUrls == {<<" ">>, sHostH}

(***************************************************************************)
(* What a handler did: the requests it sent in order, the dialog it        *)
(* showed, the timers it set.                                              *)
(***************************************************************************)
Req(method, res, idx, sub) == [method |-> method, res |-> res, idx |-> idx, sub |-> sub]
Repeat(x, n) == [i \in 1..n |-> x]
Sent(loop, req) == Repeat(req, loop.sent)

Op(name) ==
    [op |-> name, raised |-> FALSE, probes |-> 0, probeUrl |-> <<>>,
     connected |-> FALSE, gt |-> "none", gtErr |-> "none", gtFresh |-> FALSE,
     afterCmd |-> FALSE, clip |-> "none", published |-> FALSE, cmd |-> "none",
     http |-> <<>>, shown |-> "", sched |-> <<>>]

\* ms pass: pending timers come closer, the last check grows older
ElapseTimers(ts, ms) == [i \in 1..Len(ts) |-> IF ts[i] > ms THEN ts[i] - ms ELSE 0]
ElapseAge(cm, ms) == [cm EXCEPT !.age = Saturate(@ + ms)]

\* no function under study
NoCall == [fn |-> "none", arg |-> JNull, out |-> JNull]

(***************************************************************************)
(* HyperDeckGUI                                                            *)
(***************************************************************************)
Init ==
    /\ client = HyperDeckClient(1, urlDDR28)
    /\ cache = <<>>
    /\ connection_manager = NewConnectionManager(HyperDeckClient(1, urlDDR28))
    /\ transport_idx = 0
    /\ idx_var = <<"0">>
    /\ deck_var = "DDR 28 (172.16.17.52)"
    /\ base_url_var = urlDDR28
    /\ last_custom_url = <<>>
    /\ last_transport_json = EmptyDict
    /\ state_var = sDash
    /\ tc_var = sDash
    /\ clip_var = sDash
    /\ connection_var = sChecking
    /\ timers = <<POLL_INTERVAL_MS>>
    /\ device \in DeviceBodies
    /\ cmdSince = {}
    /\ lastOp = Op("init")
    /\ rw = [loop |-> NoLoop, log |-> <<>>, health |-> FALSE]
    /\ hc = [state |-> "none", raised |-> FALSE, value |-> FALSE]
    /\ call = NoCall

\* _update_client keeping the old ConnectionManager
update_client_keep_manager(base_url) ==
    /\ client.id < MaxClients
    /\ client' = HyperDeckClient(client.id + 1, base_url)
    /\ UNCHANGED connection_manager

\* _update_client: a new client and a new ConnectionManager around it
update_client(base_url) ==
    /\ client.id < MaxClients
    /\ client' = HyperDeckClient(client.id + 1, base_url)
    /\ connection_manager' = NewConnectionManager(client')

\* _on_deck_change -> _apply_deck_selection
on_deck_change(name) ==
    /\ deck_var' = name
    /\ IF name = "Custom"
       THEN /\ base_url_var' = IF last_custom_url # <<>> THEN last_custom_url
                               ELSE sPlaceholderUrl
            /\ UNCHANGED <<client, connection_manager>>
       ELSE /\ base_url_var' = DECK_CHOICES(name)
            /\ update_client(DECK_CHOICES(name))
    /\ lastOp' = Op("on_deck_change")
    /\ UNCHANGED <<rw, hc, call, cache, transport_idx, idx_var, last_custom_url, last_transport_json,
                   state_var, tc_var, clip_var, connection_var, timers, device, cmdSince>>

\* the user types into the Base URL entry (editable for the Custom deck only)
TypeUrl(raw) ==
    /\ deck_var = "Custom"
    /\ base_url_var' = raw
    /\ lastOp' = Op("none")
    /\ UNCHANGED <<rw, hc, call, client, cache, connection_manager, transport_idx, idx_var, deck_var,
                   last_custom_url, last_transport_json, state_var, tc_var, clip_var,
                   connection_var, timers, device, cmdSince>>

\* _apply_custom_url without the test of the normalized address
apply_custom_url_unchecked ==
    /\ deck_var = "Custom"
    /\ LET normalized == normalize_base_url(Strip(base_url_var)) IN
       /\ last_custom_url' = normalized
       /\ base_url_var' = normalized
       /\ update_client(normalized)
       /\ lastOp' = Op("apply_custom_url")
    /\ UNCHANGED <<rw, hc, call, cache, transport_idx, idx_var, deck_var, last_transport_json,
                   state_var, tc_var, clip_var, connection_var, timers, device, cmdSince>>

\* _apply_custom_url (the Apply URL button is enabled for the Custom deck only)
apply_custom_url ==
    /\ deck_var = "Custom"
    /\ LET normalized == normalize_base_url(Strip(base_url_var)) IN
       IF normalized = <<>>
       THEN /\ lastOp' = [Op("apply_custom_url") EXCEPT !.shown = "Invalid URL"]
            /\ UNCHANGED <<client, connection_manager, base_url_var, last_custom_url>>
       ELSE /\ last_custom_url' = normalized
            /\ base_url_var' = normalized
            /\ update_client(normalized)
            /\ lastOp' = Op("apply_custom_url")
    /\ UNCHANGED <<rw, hc, call, cache, transport_idx, idx_var, deck_var, last_transport_json,
                   state_var, tc_var, clip_var, connection_var, timers, device, cmdSince>>

\* the user edits the Transport Index spinbox
SetIdxVar(text) ==
    /\ idx_var' = text
    /\ lastOp' = Op("none")
    /\ UNCHANGED <<rw, hc, call, client, cache, connection_manager, transport_idx, deck_var,
                   base_url_var, last_custom_url, last_transport_json, state_var, tc_var,
                   clip_var, connection_var, timers, device, cmdSince>>

\* the device changes state by itself (front panel, end of clip)
DeviceChange(body) ==
    /\ body # device
    /\ device' = body
    /\ lastOp' = Op("none")
    /\ UNCHANGED <<rw, hc, call, client, cache, connection_manager, transport_idx, idx_var, deck_var,
                   base_url_var, last_custom_url, last_transport_json, state_var, tc_var,
                   clip_var, connection_var, timers, cmdSince>>

\* time passes while the event loop is idle; a due callback runs before more passes
Tick(ms) ==
    /\ \A k \in 1..Len(timers) : timers[k] > 0
    /\ timers' = ElapseTimers(timers, ms)
    /\ connection_manager' = ElapseAge(connection_manager, ms)
    /\ lastOp' = Op("none")
    /\ UNCHANGED <<rw, hc, call, client, cache, transport_idx, idx_var, deck_var, base_url_var,
                   last_custom_url, last_transport_json, state_var, tc_var, clip_var,
                   connection_var, device, cmdSince>>

\* int(self.idx_var.get()) in _update_client_from_inputs raises TclError for a
\* text that is no integer; the handler ends there, before its try block
HandlerRaises(name) ==
    /\ lastOp' = [Op(name) EXCEPT !.raised = TRUE]
    /\ UNCHANGED <<rw, hc, call, client, cache, connection_manager, transport_idx, idx_var, deck_var,
                   base_url_var, last_custom_url, last_transport_json, state_var, tc_var,
                   clip_var, connection_var, device, cmdSince>>

\* a handler that calls the command again when it failed
FinishCommandRetrying(name, title, sub, r) ==
    LET idx == IntOfDigits(idx_var) IN
    /\ transport_idx' = idx
    /\ cache' = r.cache
    /\ cmdSince' = IF r.ok THEN cmdSince \cup {idx} ELSE cmdSince
    /\ lastOp' = [Op(name) EXCEPT
                     !.http = Sent(r.loop, Req("POST", "transports", idx, sub))
                              \o (IF r.ok THEN <<>>
                                  ELSE Sent(r.loop, Req("POST", "transports", idx, sub))),
                     !.cmd = IF r.ok THEN "ok" ELSE r.err,
                     !.shown = IF r.ok THEN "" ELSE title]
    /\ UNCHANGED <<rw, hc, call, client, connection_manager, idx_var, deck_var, base_url_var,
                   last_custom_url, last_transport_json, state_var, tc_var, clip_var,
                   connection_var, timers, device>>

\* a handler that records the outcome of the command in the tracker
FinishCommandTracking(name, title, sub, r) ==
    LET idx == IntOfDigits(idx_var) IN
    /\ transport_idx' = idx
    /\ cache' = r.cache
    /\ cmdSince' = IF r.ok THEN cmdSince \cup {idx} ELSE cmdSince
    /\ connection_manager' = [connection_manager EXCEPT !.is_connected = r.ok]
    /\ lastOp' = [Op(name) EXCEPT
                     !.http = Sent(r.loop, Req("POST", "transports", idx, sub)),
                     !.cmd = IF r.ok THEN "ok" ELSE r.err,
                     !.shown = IF r.ok THEN "" ELSE title]
    /\ UNCHANGED <<rw, hc, call, client, idx_var, deck_var, base_url_var,
                   last_custom_url, last_transport_json, state_var, tc_var, clip_var,
                   connection_var, timers, device>>

\* the rest of a command handler, r being what the client's command did
FinishCommand(name, title, sub, r) ==
    LET idx == IntOfDigits(idx_var) IN
    /\ transport_idx' = idx
    /\ cache' = r.cache
    /\ cmdSince' = IF r.ok THEN cmdSince \cup {idx} ELSE cmdSince
    /\ lastOp' = [Op(name) EXCEPT
                     !.http = Sent(r.loop, Req("POST", "transports", idx, sub)),
                     !.cmd = IF r.ok THEN "ok" ELSE r.err,
                     !.shown = IF r.ok THEN "" ELSE title]
    /\ UNCHANGED <<rw, hc, call, client, connection_manager, idx_var, deck_var, base_url_var,
                   last_custom_url, last_transport_json, state_var, tc_var, clip_var,
                   connection_var, timers, device>>

on_play ==
    IF ~IsDigits(idx_var) THEN HandlerRaises("on_play") /\ UNCHANGED timers
    ELSE \E script \in CommandScripts, body \in CommandBodies :
         \E r \in {play(cache, script, body)} :
            FinishCommand("on_play", "Play failed", "play", r)

on_stop ==
    IF ~IsDigits(idx_var) THEN HandlerRaises("on_stop") /\ UNCHANGED timers
    ELSE \E script \in CommandScripts, body \in CommandBodies :
         \E r \in {stop(cache, script, body)} :
            FinishCommand("on_stop", "Stop failed", "stop", r)

on_record ==
    IF ~IsDigits(idx_var) THEN HandlerRaises("on_record") /\ UNCHANGED timers
    ELSE \E script \in CommandScripts, body \in CommandBodies :
         \E r \in {record(cache, script, body)} :
            FinishCommand("on_record", "Record failed", "record", r)

\* the rate of the three shuttle buttons travels in the payload only
on_shuttle ==
    IF ~IsDigits(idx_var) THEN HandlerRaises("on_shuttle") /\ UNCHANGED timers
    ELSE \E script \in CommandScripts, body \in CommandBodies :
         \E r \in {shuttle(cache, script, body)} :
            FinishCommand("on_shuttle", "Shuttle failed", "shuttle", r)

(***************************************************************************)
(* HyperDeckGUI.refresh_state                                              *)
(***************************************************************************)
\* an offline branch that keeps the normal cadence
PollOfflineNormalCadence(rest, idx, st) ==
    /\ transport_idx' = idx
    /\ connection_manager' = st.cm
    /\ connection_var' = st.label
    /\ state_var' = sOffline
    /\ tc_var' = sDash
    /\ clip_var' = sDash
    /\ timers' = Append(rest, POLL_INTERVAL_MS)
    /\ lastOp' = [Op("refresh_state") EXCEPT
                     !.probes = IF st.probed THEN 1 ELSE 0,
                     !.probeUrl = IF st.probed THEN st.cm.client.base_url ELSE <<>>,
                     !.http = Sent(st.loop, Req("GET", "status", -1, "")),
                     !.sched = <<POLL_INTERVAL_MS>>]
    /\ UNCHANGED <<rw, hc, call, client, cache, idx_var, deck_var, base_url_var, last_custom_url,
                   last_transport_json, device, cmdSince>>

\* an offline branch that leaves the display as it was
PollOfflineKeepingDisplay(rest, idx, st) ==
    /\ transport_idx' = idx
    /\ connection_manager' = st.cm
    /\ connection_var' = st.label
    /\ timers' = Append(rest, POLL_INTERVAL_MS_DISCONNECTED)
    /\ lastOp' = [Op("refresh_state") EXCEPT
                     !.probes = IF st.probed THEN 1 ELSE 0,
                     !.probeUrl = IF st.probed THEN st.cm.client.base_url ELSE <<>>,
                     !.http = Sent(st.loop, Req("GET", "status", -1, "")),
                     !.sched = <<POLL_INTERVAL_MS_DISCONNECTED>>]
    /\ UNCHANGED <<rw, hc, call, client, cache, idx_var, deck_var, base_url_var, last_custom_url,
                   last_transport_json, device, cmdSince, state_var, tc_var, clip_var>>

\* the branch "if not is_connected": offline display, slower poll, return
PollOffline(rest, idx, st) ==
    /\ transport_idx' = idx
    /\ connection_manager' = st.cm
    /\ connection_var' = st.label
    /\ state_var' = sOffline
    /\ tc_var' = sDash
    /\ clip_var' = sDash
    /\ timers' = Append(rest, POLL_INTERVAL_MS_DISCONNECTED)
    /\ lastOp' = [Op("refresh_state") EXCEPT
                     !.probes = IF st.probed THEN 1 ELSE 0,
                     !.probeUrl = IF st.probed THEN st.cm.client.base_url ELSE <<>>,
                     !.http = Sent(st.loop, Req("GET", "status", -1, "")),
                     !.sched = <<POLL_INTERVAL_MS_DISCONNECTED>>]
    /\ UNCHANGED <<rw, hc, call, client, cache, idx_var, deck_var, base_url_var, last_custom_url,
                   last_transport_json, device, cmdSince>>

\* which except clause the try block ends in: "none" when it ran to its end
TryOutcome(gt, jsonErr, needClip, clip) ==
    IF gt.err = "HTTPError" THEN "http"
    ELSE IF gt.err \in {"Timeout", "ConnectionError"} THEN "network"
    ELSE IF gt.err = "JSONDecodeError"
    THEN (IF jsonErr = "RequestException" THEN "network" ELSE "other")
    ELSE IF ~needClip THEN "other"
    ELSE IF clip.raised \/ DeriveClipNameRaises(clip.val) THEN "other"
    ELSE "none"

\* the try block and the rescheduling at the end of refresh_state
PollConnected(rest, idx, st, gt, jsonErr, needClip, clip) ==
    \E out \in {TryOutcome(gt, jsonErr, needClip, clip)} :
    /\ transport_idx' = idx
    /\ connection_manager' = st.cm
    /\ connection_var' = st.label
    /\ cache' = gt.cache
    /\ cmdSince' = cmdSince \ {idx}
    /\ last_transport_json' = IF gt.err = "none" THEN gt.val ELSE last_transport_json
    /\ state_var' = IF out = "none" THEN derive_state(gt.val)
                    ELSE IF out = "http" THEN sError
                    ELSE IF out = "network" THEN sNetworkError
                    ELSE state_var
    /\ tc_var' = IF out = "none" THEN derive_timecode(gt.val) ELSE tc_var
    /\ clip_var' = IF out = "none" THEN derive_active_clip_name(clip.val) ELSE clip_var
    /\ timers' = Append(rest, POLL_INTERVAL_MS)
    /\ lastOp' = [Op("refresh_state") EXCEPT
                     !.probes = IF st.probed THEN 1 ELSE 0,
                     !.probeUrl = IF st.probed THEN st.cm.client.base_url ELSE <<>>,
                     !.connected = TRUE,
                     !.gt = IF gt.hit THEN "hit"
                            ELSE IF gt.err = "none" THEN "fetched" ELSE "failed",
                     !.gtErr = gt.err,
                     !.gtFresh = gt.err = "none" /\ JsonBody(gt.val) = device,
                     !.afterCmd = idx \in cmdSince,
                     !.clip = IF needClip THEN clip.how ELSE "none",
                     !.published = (out = "none"),
                     !.http = Sent(st.loop, Req("GET", "status", -1, ""))
                              \o Sent(gt.loop, Req("GET", "transports", idx, ""))
                              \o (IF needClip
                                  THEN Sent(clip.direct, Req("GET", "clips", -1, "active"))
                                       \o Sent(clip.list, Req("GET", "clips", -1, ""))
                                  ELSE <<>>),
                     !.sched = <<POLL_INTERVAL_MS>>]
    /\ UNCHANGED <<rw, hc, call, client, idx_var, deck_var, base_url_var, last_custom_url, device>>

refresh_state ==
    \E k \in 1..Len(timers) :
      /\ timers[k] = 0
      /\ LET rest == RemoveAt(timers, k) IN
         IF ~IsDigits(idx_var)
         THEN HandlerRaises("refresh_state") /\ timers' = rest
         ELSE LET idx == IntOfDigits(idx_var) IN
              \E hs \in ScriptsFor(connection_manager.age >= connection_check_interval) :
              \E st \in {get_connection_status(connection_manager, hs)} :
                IF ~st.value
                THEN PollOffline(rest, idx, st)
                ELSE \E ts \in ScriptsFor(CacheFind(cache, client.id, idx) = 0) :
                     \E gt \in {get_transport(cache, client.id, idx, ts, device)} :
                     \E needClip \in {/\ gt.err = "none"
                                      /\ ~DeriveStateRaises(gt.val)
                                      /\ ~DeriveTimecodeRaises(gt.val)} :
                     \E jsonErr \in (IF gt.err = "JSONDecodeError"
                                     THEN {"RequestException", "ValueError"}
                                     ELSE {"none"}) :
                     \E sa \in ClipScriptsFor(needClip) :
                     \E ba \in (IF needClip THEN ActiveClipBodies ELSE {TextBody}) :
                     \E fallback \in {needClip /\ ~(AttemptSucceeds(sa[MAX_RETRIES])
                                                    /\ ba.kind = "json")} :
                     \E sl \in ClipScriptsFor(fallback) :
                     \E bl \in (IF fallback THEN ClipListBodies ELSE {TextBody}) :
                     \E clip \in {get_active_clip(sa, ba, sl, bl)} :
                        PollConnected(rest, idx, st, gt, jsonErr, needClip, clip)

TickSteps == {POLL_INTERVAL_MS}

(***************************************************************************)
(* Spec: the poll loop and the command buttons against a device that       *)
(* changes state by itself, index and endpoint as started.                 *)
(***************************************************************************)
Next ==
    \/ refresh_state
    \/ on_play
    \/ on_stop
    \/ on_record
    \/ on_shuttle
    \/ \E body \in DeviceBodies : DeviceChange(body)
    \/ \E ms \in TickSteps : Tick(ms)

Spec == Init /\ [][Next]_vars

(***************************************************************************)
(* SpecIndex: the same handlers while the user edits the Transport Index   *)
(* spinbox, the device keeping its state.                                  *)
(***************************************************************************)
IndexInit == Init /\ device = JsonBody(DocStopped)

IndexNext ==
    \/ refresh_state
    \/ on_play
    \/ on_stop
    \/ on_record
    \/ on_shuttle
    \/ \E text \in IdxTexts : SetIdxVar(text)
    \/ \E ms \in TickSteps : Tick(ms)

SpecIndex == IndexInit /\ [][IndexNext]_vars

(***************************************************************************)
(* SpecEndpoint: the poll loop while the user switches the endpoint, by    *)
(* preset or by custom URL.                                                *)
(***************************************************************************)
EndpointNext ==
    \/ refresh_state
    \/ \E name \in DeckNames : on_deck_change(name)
    \/ \E raw \in RawUrls : TypeUrl(raw)
    \/ apply_custom_url
    \/ \E ms \in TickSteps : Tick(ms)

SpecEndpoint == IndexInit /\ [][EndpointNext]_vars

(***************************************************************************)
(* SpecRecovery: the poll loop, the Play button and the Transport Index    *)
(* spinbox against a device whose answers come and go.  The Tk event loop  *)
(* runs a callback that is due and lets time pass while none is.           *)
(***************************************************************************)
RecoveryNext ==
    \/ refresh_state
    \/ on_play
    \/ \E text \in IdxTexts : SetIdxVar(text)
    \/ \E ms \in TickSteps : Tick(ms)

SpecRecovery ==
    /\ IndexInit
    /\ [][RecoveryNext]_vars
    /\ WF_vars(refresh_state)
    /\ WF_vars(\E ms \in TickSteps : Tick(ms))

(***************************************************************************)
(* SpecRetry: one client call at a time, attempt by attempt, against a     *)
(* device that answers each attempt with any outcome.  rw.log records the  *)
(* outcomes the device gave, hc what health_check returned.                *)
(***************************************************************************)
Methods == {"GET", "POST"}
NoHealth == [state |-> "none", raised |-> FALSE, value |-> FALSE]

RetryInit ==
    /\ client = HyperDeckClient(1, urlDDR28)
    /\ cache = <<>>
    /\ connection_manager = NewConnectionManager(HyperDeckClient(1, urlDDR28))
    /\ transport_idx = 0
    /\ idx_var = <<"0">>
    /\ deck_var = "DDR 28 (172.16.17.52)"
    /\ base_url_var = urlDDR28
    /\ last_custom_url = <<>>
    /\ last_transport_json = EmptyDict
    /\ state_var = sDash
    /\ tc_var = sDash
    /\ clip_var = sDash
    /\ connection_var = sChecking
    /\ timers = <<POLL_INTERVAL_MS>>
    /\ device = TextBody
    /\ cmdSince = {}
    /\ lastOp = Op("init")
    /\ rw \in {[loop |-> RetryStart(m), log |-> <<>>, health |-> h] :
                  m \in Methods, h \in BOOLEAN}
    /\ rw.health => rw.loop.method = "GET"
    /\ hc = NoHealth
    /\ call = NoCall

RetryAttempt ==
    /\ rw.loop.pc = "running"
    /\ \E o \in Outcome :
          rw' = [rw EXCEPT !.loop = RetryStep(rw.loop, o), !.log = Append(@, o)]
    /\ UNCHANGED <<hc, call, guiVars>>

HealthCheckReturn ==
    /\ rw.health
    /\ rw.loop.pc # "running"
    /\ hc.state = "none"
    /\ hc' = [state |-> "done"] @@ health_check_result(rw.loop)
    /\ UNCHANGED <<rw, call, guiVars>>

RetryNext == RetryAttempt \/ HealthCheckReturn

SpecRetry == RetryInit /\ [][RetryNext]_vars

(***************************************************************************)
(* src/blackmagic-transport.py: the first version of the client and of the *)
(* derive functions, where it differs from src/v2.py.                      *)
(***************************************************************************)
sUnknownV1 == <<"u", "n", "k", "n", "o", "w", "n">>
sUnnamedV1 == <<"u", "n", "n", "a", "m", "e", "d">>

\* HyperDeckClient._post: one attempt, the 204 / empty-body test coming
\* before raise_for_status
post_v1(o, body) ==
    IF o.kind # "response"
    THEN [ok |-> FALSE, err |-> ErrorOf(o), final |-> o, result |-> JNull]
    ELSE IF o.status = 204 \/ body.kind = "empty"
    THEN [ok |-> TRUE, err |-> "none", final |-> o, result |-> EmptyDict]
    ELSE IF RaisesForStatus(o)
    THEN [ok |-> FALSE, err |-> "HTTPError", final |-> o, result |-> JNull]
    ELSE [ok |-> TRUE, err |-> "none", final |-> o,
          result |-> IF body.kind = "json" THEN body.val
                     ELSE JDict([k \in {"ok", "raw"} |->
                                    IF k = "ok" THEN JBool(TRUE) ELSE body.val])]

derive_state_v1(tr) ==
    LET i == FirstNonBlank(tr, StateKeys, 1) IN
    IF i > 0 THEN Get(tr, StateKeys[i]).v
    ELSE IF truthy(Get(tr, "isRecording")) \/ truthy(Get(tr, "recording")) THEN sRecording
    ELSE IF truthy(Get(tr, "isPlaying")) \/ truthy(Get(tr, "playing")) THEN sPlaying
    ELSE IF truthy(Get(tr, "isStopped")) \/ truthy(Get(tr, "stopped")) THEN sStopped
    ELSE sUnknownV1

derive_active_clip_name_v1(clip_info) ==
    IF Falsy(clip_info) THEN sDash
    ELSE LET i == FirstNonBlank(clip_info, ClipNameKeys, 1) IN
         IF i > 0 THEN Get(clip_info, ClipNameKeys[i]).v ELSE sUnnamedV1

\* HyperDeckClient._get: one attempt, raise_for_status, then r.json()
get_v1(o) ==
    [RetryStart("GET") EXCEPT !.pc = IF AttemptSucceeds(o) THEN "returned" ELSE "raised",
                              !.attempt = 1, !.sent = 1, !.outcome = o]

\* get_active_clip of the first version: the same two steps over _get
get_active_clip_v1(oA, bodyA, oL, bodyL) ==
    LET a == get_v1(oA) IN
    IF a.pc = "returned" /\ bodyA.kind = "json"
    THEN [raised |-> FALSE, how |-> "direct", val |-> bodyA.val, direct |-> a, list |-> NoLoop]
    ELSE LET l == get_v1(oL)
             clips == bodyL.val
             items == IF clips.t = "dict" THEN Get(clips, "items") ELSE clips
             c == IF l.pc = "raised" \/ bodyL.kind # "json" THEN JNull
                  ELSE IF items.t = "list" THEN ScanActive(items.v, 1) ELSE JNull
         IN [raised |-> FALSE, how |-> IF c = JNull THEN "absent" ELSE "fallback",
             val |-> c, direct |-> a, list |-> l]

(***************************************************************************)
(* SpecPure: one function of the program applied to one input.  The input  *)
(* is drawn at the start: a JSON payload for the derive functions, or what *)
(* the device does with the attempts of one client call and the body it    *)
(* answers with.                                                           *)
(***************************************************************************)
\* a key that the document does not hold
Absent == [t |-> "absent", v |-> 0]

\* the document holding keys[i]: vals[i] for every value that is not Absent
MakeDoc(keys, vals) ==
    LET present == {i \in 1..Len(keys) : vals[i] # Absent} IN
    JDict([k \in {keys[i] : i \in present} |->
              vals[CHOOSE i \in present : keys[i] = k]])

sUpperTrue == <<"T", "R", "U", "E">>
sOneDotZero == <<"1", ".", "0">>
sReel == <<"r", "e", "e", "l", "_", "0", "0", "7">>

sPaddedPlay == <<" ", "p", "l", "a", "y", " ">>
StateDocKeys == <<"status", "mode", "isRecording", "recording", "playing", "stopped">>
StateDocs ==
    {MakeDoc(StateDocKeys, <<a, b, c, d, e, g>>) :
        a \in {Absent, JStr(<<" ">>), JStr(sStatePlay), JStr(sPaddedPlay), JInt(1)},
        b \in {Absent, JStr(sStatusStopped)},
        c \in {Absent, JStr(sUpperTrue), JBool(FALSE)},
        d \in {Absent, JInt(1), JStr(sYes)},
        e \in {Absent, JBool(TRUE), JStr(sOneDotZero)},
        g \in {Absent, JStr(sOn), JStr(<<" ", "o", "n">>)}}

TimecodeDocKeys == <<"position", "timecode", "tc">>
TimecodeDocs ==
    {MakeDoc(TimecodeDocKeys, <<a, b, c>>) :
        a \in {Absent, JStr(<<>>), JStr(<<" ">>), JInt(3725), JBool(TRUE), JNull,
               JList(<<>>)},
        b \in {Absent, JStr(sTcB), JInt(59)},
        c \in {Absent, JStr(<<"x">>)}}

\* whole seconds around the places where a field of HH:MM:SS changes width
MaxNegative == 2
MaxSeconds == 360001
Seconds ==
    ((0 - MaxNegative)..70) \cup (3590..3730) \cup (86390..86410) \cup (359990..MaxSeconds)
SecondsDocs == {MakeDoc(<<"position">>, <<JInt(n)>>) : n \in Seconds}

ClipDocKeys == <<"name", "clipName", "filename">>
ClipDocs ==
    {MakeDoc(ClipDocKeys, <<a, b, c>>) :
        a \in {Absent, JStr(<<>>), JStr(sClipA), JInt(7)},
        b \in {Absent, JStr(<<" ">>), JStr(sClipB)},
        c \in {Absent, JStr(sReel)}}

\* payloads that are no key/value document
NonDocs == {JNull, JList(<<>>), JList(<<JStr(sClipA)>>), JStr(sClipA), JInt(0), JInt(5),
            JBool(TRUE)}

Payloads == StateDocs \cup TimecodeDocs \cup SecondsDocs \cup ClipDocs \cup NonDocs

\* the attempts of one call: the same answer every time, a refusal first, or
\* two server errors and then any status
CallScripts ==
    {ConstScript(o) : o \in Outcome} \cup {FlakyScript}
       \cup {[i \in 1..MAX_RETRIES |-> IF i < MAX_RETRIES THEN Response(500) ELSE Response(c)] :
                c \in StatusCodes}
CallBodies == {JsonBody(DocPlay), TextBody, EmptyBody}

\* clip lists: the active flag as true, 1, "true" or false, two active
\* entries, and an entry that is no object before the active one
ClipNamed(name, active) ==
    JDict([k \in {"name", "active"} |-> IF k = "name" THEN JStr(name) ELSE active])
ClipItems ==
    {<<>>,
     <<ClipInactive, ClipB>>,
     <<ClipNamed(sClipA, JInt(1)), ClipNamed(sClipB, JStr(sTrue))>>,
     <<ClipNamed(sClipA, JInt(1)), ClipNamed(sClipB, JBool(TRUE)), ClipNamed(sReel, JBool(TRUE))>>,
     <<ClipA, ClipNamed(sReel, JBool(TRUE))>>,
     <<JNull, ClipNamed(sClipB, JBool(TRUE))>>}
PureClipListBodies ==
    {JsonBody(JDict([k \in {"items"} |-> JList(items)])) : items \in ClipItems}
       \cup {JsonBody(JList(items)) : items \in ClipItems}
       \cup {JsonBody(EmptyDict), TextBody}
PureClipScripts == {OkScript, FlakyScript, ConstScript(Response(404)), ConstScript(TimedOut)}
PureActiveClipBodies == {JsonBody(ClipA), TextBody, EmptyBody}

\* texts of the Base URL entry: blank, a host with and without scheme,
\* slashes and blanks around it, and with the control path already there
sHost == <<"h">>
sControlUpper == <<"/", "C", "O", "N", "T", "R", "O", "L", "/", "A", "P", "I", "/", "V", "1">>
PureUrls ==
    {<<>>, <<" ">>, sHost, sHost \o <<"/">>, sHost \o <<"/", "/">>,
     <<" ">> \o sHost \o <<" ">>,
     sHttp \o sHost, sHttps \o sHost, <<"H", "T", "T", "P", ":", "/", "/">> \o sHost,
     sHost \o sControl, sHost \o sControl \o <<"/">>, sHost \o sControlUpper,
     sHost \o sControl \o <<"/", "/">>,
     sHttp \o sHost \o sControl \o <<"/">>, sHttps \o sHost \o sControl \o <<"/">>,
     sUrlH, urlDDR27}

PureInputs ==
    {[kind |-> "json", val |-> p] : p \in Payloads}
       \cup {[kind |-> "http", script |-> sc, body |-> b] : sc \in CallScripts, b \in CallBodies}
       \cup {[kind |-> "clip", script |-> sa, body |-> ba, lscript |-> sl, lbody |-> bl] :
                sa \in PureClipScripts, ba \in PureActiveClipBodies,
                sl \in PureClipScripts, bl \in PureClipListBodies}
       \cup {[kind |-> "url", raw |-> u] : u \in PureUrls}

PureInit ==
    /\ client = HyperDeckClient(1, urlDDR28)
    /\ cache = <<>>
    /\ connection_manager = NewConnectionManager(HyperDeckClient(1, urlDDR28))
    /\ transport_idx = 0
    /\ idx_var = <<"0">>
    /\ deck_var = "DDR 28 (172.16.17.52)"
    /\ base_url_var = urlDDR28
    /\ last_custom_url = <<>>
    /\ last_transport_json = EmptyDict
    /\ state_var = sDash
    /\ tc_var = sDash
    /\ clip_var = sDash
    /\ connection_var = sChecking
    /\ timers = <<POLL_INTERVAL_MS>>
    /\ device = TextBody
    /\ cmdSince = {}
    /\ lastOp = Op("init")
    /\ rw = [loop |-> NoLoop, log |-> <<>>, health |-> FALSE]
    /\ hc = NoHealth
    /\ call \in {[fn |-> "none", arg |-> a, out |-> JNull] : a \in PureInputs}

\* what a derive function gave: the text it returned, or that it raised
Returned(text) == [raised |-> FALSE, value |-> text]
Raised == [raised |-> TRUE, value |-> <<>>]

\* fn applied to the payload drawn
Derive(fn, raises, text) ==
    /\ call.fn = "none"
    /\ call.arg.kind = "json"
    /\ call' = [call EXCEPT !.fn = fn, !.out = IF raises THEN Raised ELSE Returned(text)]
    /\ UNCHANGED <<guiVars, retryVars>>

CallDeriveState ==
    Derive("derive_state", DeriveStateRaises(call.arg.val), derive_state(call.arg.val))

CallDeriveStateV1 ==
    Derive("derive_state_v1", DeriveStateRaises(call.arg.val), derive_state_v1(call.arg.val))

CallDeriveTimecode ==
    Derive("derive_timecode", DeriveTimecodeRaises(call.arg.val),
           derive_timecode(call.arg.val))

CallDeriveClipName ==
    Derive("derive_active_clip_name", DeriveClipNameRaises(call.arg.val),
           derive_active_clip_name(call.arg.val))

CallDeriveClipNameV1 ==
    Derive("derive_active_clip_name_v1", DeriveClipNameRaises(call.arg.val),
           derive_active_clip_name_v1(call.arg.val))

\* get_transport of a client whose cache is empty
CallGetTransport ==
    /\ call.fn = "none"
    /\ call.arg.kind = "http"
    /\ LET r == get_transport(<<>>, 1, 0, call.arg.script, call.arg.body) IN
       call' = [call EXCEPT !.fn = "get_transport",
                            !.out = [ok |-> r.err = "none", err |-> r.err,
                                     final |-> r.loop.outcome, result |-> r.val]]
    /\ UNCHANGED <<guiVars, retryVars>>

\* r is what play, stop, record or shuttle did
Commanded(fn, r) ==
    /\ call.fn = "none"
    /\ call.arg.kind = "http"
    /\ call' = [call EXCEPT !.fn = fn,
                            !.out = [ok |-> r.ok, err |-> r.err,
                                     final |-> r.loop.outcome, result |-> r.result]]
    /\ UNCHANGED <<guiVars, retryVars>>

CallPlay == Commanded("play", play(<<>>, call.arg.script, call.arg.body))
CallStop == Commanded("stop", stop(<<>>, call.arg.script, call.arg.body))
CallRecord == Commanded("record", record(<<>>, call.arg.script, call.arg.body))
CallShuttle == Commanded("shuttle", shuttle(<<>>, call.arg.script, call.arg.body))

\* a command of the first version: one attempt, answered with script[1]
CallPostV1 ==
    /\ call.fn = "none"
    /\ call.arg.kind = "http"
    /\ call' = [call EXCEPT !.fn = "post_v1",
                            !.out = post_v1(call.arg.script[1], call.arg.body)]
    /\ UNCHANGED <<guiVars, retryVars>>

CallGetActiveClip ==
    /\ call.fn = "none"
    /\ call.arg.kind = "clip"
    /\ call' = [call EXCEPT !.fn = "get_active_clip",
                            !.out = get_active_clip(call.arg.script, call.arg.body,
                                                    call.arg.lscript, call.arg.lbody)]
    /\ UNCHANGED <<guiVars, retryVars>>

\* the first version: one attempt for each request, answered with script[1]
CallGetActiveClipV1 ==
    /\ call.fn = "none"
    /\ call.arg.kind = "clip"
    /\ call' = [call EXCEPT !.fn = "get_active_clip_v1",
                            !.out = get_active_clip_v1(call.arg.script[1], call.arg.body,
                                                       call.arg.lscript[1], call.arg.lbody)]
    /\ UNCHANGED <<guiVars, retryVars>>

\* normalize_base_url of the text drawn
CallNormalize ==
    /\ call.fn = "none"
    /\ call.arg.kind = "url"
    /\ call' = [call EXCEPT !.fn = "normalize_base_url",
                            !.out = Returned(normalize_base_url(call.arg.raw))]
    /\ UNCHANGED <<guiVars, retryVars>>

PureNext ==
    \/ CallDeriveState
    \/ CallDeriveStateV1
    \/ CallDeriveTimecode
    \/ CallDeriveClipName
    \/ CallDeriveClipNameV1
    \/ CallGetTransport
    \/ CallPlay
    \/ CallStop
    \/ CallRecord
    \/ CallShuttle
    \/ CallPostV1
    \/ CallGetActiveClip
    \/ CallGetActiveClipV1
    \/ CallNormalize

SpecPure == PureInit /\ [][PureNext]_vars

(***************************************************************************)
(* Properties                                                              *)
(***************************************************************************)
CommandOps == {"on_play", "on_stop", "on_record", "on_shuttle"}

\* the requests of one kind among those a handler sent
Requests(res, sub) == SelectSeq(lastOp.http, LAMBDA q : q.res = res /\ q.sub = sub)

\* C1: the first get_transport after a successful play, stop, record or
\* shuttle for the same index is no cache hit: it sends GET transports/{idx}
\* and, when that succeeds, returns what the device answered.
C1_FreshAfterCommand ==
    (lastOp.op = "refresh_state" /\ lastOp.connected /\ lastOp.afterCmd)
        => /\ lastOp.gt # "hit"
           /\ Len(Requests("transports", "")) >= 1
           /\ \A k \in 1..Len(lastOp.http) :
                 lastOp.http[k].res = "transports" => lastOp.http[k].idx = transport_idx
           /\ lastOp.gt = "fetched"
                 => lastOp.gtFresh /\ JsonBody(last_transport_json) = device

\* a poll that follows a successful command and fetched the device's new answer
C1_Witness ==
    /\ lastOp.op = "refresh_state"
    /\ lastOp.afterCmd
    /\ lastOp.gt = "fetched"
    /\ lastOp.gtFresh
    /\ device = JsonBody(DocPlay)

\* C2: every poll cycle that finds the device connected fetches the transport
\* in that cycle: it sends GET transports/{idx}, and the snapshot it displays
\* is the device's answer of that cycle.
C2_PollFetches ==
    (lastOp.op = "refresh_state" /\ lastOp.connected)
        => /\ lastOp.gt # "hit"
           /\ Len(Requests("transports", "")) >= 1
           /\ lastOp.published => JsonBody(last_transport_json) = device

\* C3: under the retry policy, k < MAX_RETRIES failed attempts followed by a
\* success return that response with no error; the call does not give up
\* before MAX_RETRIES attempts; MAX_RETRIES failed attempts raise the error of
\* the last attempt.
FailedBefore(k) == \A i \in 1..k : ~AttemptSucceeds(rw.log[i])

C3_RetryPolicy ==
    /\ \A k \in 0..(MAX_RETRIES - 1) :
          (Len(rw.log) = k + 1 /\ FailedBefore(k) /\ AttemptSucceeds(rw.log[k + 1]))
             => rw.loop.pc = "returned" /\ rw.loop.outcome = rw.log[k + 1]
    /\ (Len(rw.log) \in 1..(MAX_RETRIES - 1) /\ FailedBefore(Len(rw.log)))
          => rw.loop.pc = "running"
    /\ (Len(rw.log) = MAX_RETRIES /\ FailedBefore(MAX_RETRIES))
          => /\ rw.loop.pc = "raised"
             /\ rw.loop.outcome = rw.log[MAX_RETRIES]
             /\ rw.loop.sent = MAX_RETRIES

\* every attempt failed, the last one differently from the first
C3_Witness ==
    /\ rw.loop.pc = "raised"
    /\ Len(rw.log) = MAX_RETRIES
    /\ ErrorOf(rw.log[1]) # ErrorOf(rw.log[MAX_RETRIES])

\* C4: health_check never raises; it returns a boolean, and False whenever
\* the status request ended in an exception.
C4_HealthCheckNeverRaises ==
    hc.state = "done"
        => /\ ~hc.raised
           /\ hc.value \in BOOLEAN
           /\ rw.loop.pc = "raised" => hc.value = FALSE

\* health_check returned after the status request timed out on every attempt
C4_Witness ==
    /\ hc.state = "done"
    /\ rw.loop.pc = "raised"
    /\ rw.loop.outcome = TimedOut
    /\ hc.value = FALSE

\* C5: health_check returns True exactly when the status request ended with
\* a response whose status is in 200..299.
C5_TrueOn2xx ==
    hc.state = "done"
        => (hc.value <=> (rw.loop.pc = "returned" /\ rw.loop.outcome.status \in 200..299))

\* C6: a get_connection_status call made less than connection_check_interval
\* after the last check returns the stored boolean and its label and sends
\* nothing; a call made once the interval has elapsed runs health_check
\* exactly once, stores the result with the current time and returns it.
LabelOf(b) == IF b THEN sConnected ELSE sDisconnected

C6_ValidityWindow ==
    [][(lastOp'.op = "refresh_state" /\ ~lastOp'.raised)
          => IF connection_manager.age < connection_check_interval
             THEN /\ lastOp'.probes = 0
                  /\ SelectSeq(lastOp'.http, LAMBDA q : q.res = "status") = <<>>
                  /\ connection_manager' = connection_manager
                  /\ lastOp'.connected = connection_manager.is_connected
                  /\ connection_var' = LabelOf(connection_manager.is_connected)
             ELSE /\ lastOp'.probes = 1
                  /\ Len(SelectSeq(lastOp'.http, LAMBDA q : q.res = "status"))
                        \in 1..MAX_RETRIES
                  /\ connection_manager'.age = 0
                  /\ lastOp'.connected = connection_manager'.is_connected
                  /\ connection_var' = LabelOf(connection_manager'.is_connected)]_vars

\* a poll inside the window of a check that found the device connected
C6_Witness ==
    /\ lastOp.op = "refresh_state"
    /\ lastOp.connected
    /\ lastOp.probes = 0
    /\ connection_manager.age > 0
    /\ connection_var = sConnected

\* C7: replacing the client replaces the connection tracker by one made for
\* the new client that holds no check younger than the window, and the first
\* status asked of such a tracker probes the new client's endpoint, whatever
\* the old tracker had stored and however recently.
C7_EndpointResetsTracker ==
    [][/\ client' # client
          => /\ connection_manager'.client = client'
             /\ connection_manager'.age >= connection_check_interval
       /\ (/\ lastOp'.op = "refresh_state"
           /\ ~lastOp'.raised
           /\ connection_manager.age >= connection_check_interval)
          => /\ lastOp'.probes = 1
             /\ lastOp'.probeUrl = client.base_url
             /\ connection_manager'.client = client]_vars

\* the first poll after a switch to the custom endpoint probed that endpoint
C7_Witness ==
    /\ lastOp.op = "refresh_state"
    /\ client.id > 1
    /\ client.base_url = sUrlH
    /\ lastOp.probes = 1
    /\ lastOp.probeUrl = sUrlH
    /\ lastOp.connected

\* C8: every execution of refresh_state ends with the next poll scheduled.
C8_PollRescheduled ==
    /\ lastOp.op = "refresh_state" => Len(lastOp.sched) = 1
    /\ Len(timers) >= 1

\* C9: get_active_clip raises nothing; when the direct request and the
\* fallback both fail it returns None, and the poll cycle still publishes
\* the state and the timecode of its snapshot, the clip name being the
\* placeholder.
C9_ClipFailureKeepsPoll ==
    (lastOp.op = "refresh_state" /\ lastOp.clip = "absent")
        => /\ lastOp.published
           /\ state_var = derive_state(last_transport_json)
           /\ tc_var = derive_timecode(last_transport_json)
           /\ clip_var = sDash
           /\ lastOp.sched = <<POLL_INTERVAL_MS>>

\* both clip requests failed on every attempt; the state and the timecode of
\* the playing device were shown
C9_Witness ==
    /\ lastOp.op = "refresh_state"
    /\ lastOp.clip = "absent"
    /\ Len(Requests("clips", "active")) = MAX_RETRIES
    /\ Len(Requests("clips", "")) = MAX_RETRIES
    /\ device = JsonBody(DocPlay)
    /\ state_var = sStatePlay
    /\ tc_var = sTcB
    /\ clip_var = sDash

\* C10: a command whose request failed on every attempt reaches its handler
\* as an error; the handler shows it and sends nothing more: the requests of
\* the handler are the MAX_RETRIES attempts of that one call.
C10_FailedCommandShownOnce ==
    (lastOp.op \in CommandOps /\ ~lastOp.raised /\ lastOp.cmd # "ok")
        => /\ lastOp.cmd \in {"HTTPError", "Timeout", "ConnectionError"}
           /\ lastOp.shown # ""
           /\ Len(lastOp.http) = MAX_RETRIES
           /\ \A k \in 1..Len(lastOp.http) :
                 /\ lastOp.http[k].method = "POST"
                 /\ lastOp.http[k].idx = transport_idx

\* Record failed with an HTTP error and the dialog "Record failed" was shown
C10_Witness ==
    /\ lastOp.op = "on_record"
    /\ lastOp.cmd = "HTTPError"
    /\ lastOp.shown = "Record failed"
    /\ Len(lastOp.http) = MAX_RETRIES

ClientFns == {"get_transport", "play", "stop", "record", "shuttle", "post_v1"}
CommandFns == {"play", "stop", "record", "shuttle"}
StateFns == {"derive_state", "derive_state_v1"}
ClipNameFns == {"derive_active_clip_name", "derive_active_clip_name_v1"}

\* C11: a call whose last answer has a status outside 200..299 fails with
\* an HTTP error (the exception carries that response); it is never a
\* successful result, whatever the body.
C11_Non2xxFails ==
    (/\ call.fn \in ClientFns
     /\ call.out.final.kind = "response"
     /\ call.out.final.status \notin 200..299)
        => ~call.out.ok /\ call.out.err = "HTTPError"

\* C12: a command answered successfully with status 204 or with an empty
\* body returns the empty dict; answered with a non-empty body that is not
\* JSON it returns {"ok": True, "raw": <the text>}.
C12_CommandResult ==
    (call.fn \in CommandFns /\ call.out.ok)
        => /\ (call.out.final.status = 204 \/ call.arg.body.kind = "empty")
                 => call.out.result = EmptyDict
           /\ (call.out.final.status # 204 /\ call.arg.body.kind = "text")
                 => /\ call.out.result.t = "dict"
                    /\ DOMAIN call.out.result.v = {"ok", "raw"}
                    /\ call.out.result.v["ok"] = JBool(TRUE)
                    /\ call.out.result.v["raw"] = call.arg.body.val

\* record answered 200 with a body that is no JSON: the raw text came back
C12_Witness ==
    /\ call.fn = "record"
    /\ call.out.ok
    /\ call.out.final = Response(200)
    /\ call.arg.body = TextBody
    /\ Get(call.out.result, "raw") = TextBody.val

\* the payload of a derive call, and whether it is a key/value document
Payload == call.arg.val
IsDoc(x) == x.t = "dict"

\* position i is the first of keys whose value in d satisfies Usable
FirstOf(d, keys, i, Usable(_)) ==
    /\ i \in 1..Len(keys)
    /\ Usable(Get(d, keys[i]))
    /\ \A j \in 1..(i - 1) : ~Usable(Get(d, keys[j]))

NoneOf(d, keys, Usable(_)) == \A j \in 1..Len(keys) : ~Usable(Get(d, keys[j]))

\* a string with at least one character
IsNonEmptyStr(x) == x.t = "str" /\ x.v # <<>>

\* C13, as amended: when at least one of status, state, transport,
\* transportState, transportMode, mode, playbackStatus holds a string that is
\* not blank (has a character other than whitespace), derive_state returns
\* exactly the string of the first such field, whatever else is present.
C13_StatePriority ==
    (call.fn \in StateFns /\ IsDoc(Payload))
        => \A i \in 1..Len(StateKeys) :
              FirstOf(Payload, StateKeys, i, IsNonBlankStr)
                 => call.out = Returned(Get(Payload, StateKeys[i]).v)

\* C13 as stated: the first field holding a non-empty string decides.
C13_StatePriorityNonEmpty ==
    (call.fn \in StateFns /\ IsDoc(Payload))
        => \A i \in 1..Len(StateKeys) :
              FirstOf(Payload, StateKeys, i, IsNonEmptyStr)
                 => call.out = Returned(Get(Payload, StateKeys[i]).v)

\* status "play" beat mode "stopped" and a truthy recording flag
C13_Witness ==
    /\ call.fn = "derive_state"
    /\ IsDoc(Payload)
    /\ Get(Payload, "status") = JStr(sStatePlay)
    /\ Get(Payload, "mode") = JStr(sStatusStopped)
    /\ Get(Payload, "recording") = JInt(1)
    /\ call.out = Returned(sStatePlay)

\* a flag is truthy when its text in lower case is 1, true, yes or on
FlagSet(d, a, b) ==
    \/ Lower(PyStr(Get(d, a))) \in {<<"1">>, sTrue, sYes, sOn}
    \/ Lower(PyStr(Get(d, b))) \in {<<"1">>, sTrue, sYes, sOn}

\* C14: with no usable string among the status fields, derive_state returns
\* "Recording" if isRecording or recording is truthy, else "Playing" if
\* isPlaying or playing is, else "Stopped" if isStopped or stopped is, else
\* "Unknown".
C14_FlagFallback ==
    (call.fn \in StateFns /\ IsDoc(Payload) /\ NoneOf(Payload, StateKeys, IsNonBlankStr))
        => call.out = Returned(IF FlagSet(Payload, "isRecording", "recording") THEN sRecording
                               ELSE IF FlagSet(Payload, "isPlaying", "playing") THEN sPlaying
                               ELSE IF FlagSet(Payload, "isStopped", "stopped") THEN sStopped
                               ELSE sUnknown)

\* the same for derive_state of src/v2.py alone
C14_FlagFallbackV2 ==
    (call.fn = "derive_state" /\ IsDoc(Payload) /\ NoneOf(Payload, StateKeys, IsNonBlankStr))
        => call.out = Returned(IF FlagSet(Payload, "isRecording", "recording") THEN sRecording
                               ELSE IF FlagSet(Payload, "isPlaying", "playing") THEN sPlaying
                               ELSE IF FlagSet(Payload, "isStopped", "stopped") THEN sStopped
                               ELSE sUnknown)

\* text is two decimal digits whose value is n
TwoDigits(text, n) == Len(text) = 2 /\ IsDigits(text) /\ IntOfDigits(text) = n

\* C15: a whole number of seconds n under the deciding key is shown as
\* HH:MM:SS:00, every field two digits, HH = n div 3600,
\* MM = (n mod 3600) div 60, SS = n mod 60.
C15_SecondsFormat ==
    (/\ call.fn = "derive_timecode"
     /\ IsDoc(Payload)
     /\ Get(Payload, "position").t = "int")
        => LET n == Get(Payload, "position").v
               v == call.out.value
           IN /\ ~call.out.raised
              /\ Len(v) = 11
              /\ TwoDigits(SubSeq(v, 1, 2), n \div 3600)
              /\ v[3] = ":"
              /\ TwoDigits(SubSeq(v, 4, 5), (n % 3600) \div 60)
              /\ v[6] = ":"
              /\ TwoDigits(SubSeq(v, 7, 8), n % 60)
              /\ SubSeq(v, 9, 11) = <<":", "0", "0">>

\* a JSON number (true and false are not numbers)
IsJsonNumber(x) == x.t = "int"
UsableTimecode(x) == IsNonBlankStr(x) \/ IsJsonNumber(x)

\* C16: of position, timecode, time, tc, currentTimecode the first that
\* holds a usable string or a number decides: a string is returned as it
\* is; with no such candidate the result is "00:00:00:00".
C16_TimecodePriority ==
    (call.fn = "derive_timecode" /\ IsDoc(Payload))
        => /\ \A i \in 1..Len(TimecodeKeys) :
                 (/\ FirstOf(Payload, TimecodeKeys, i, UsableTimecode)
                  /\ Get(Payload, TimecodeKeys[i]).t = "str")
                    => call.out = Returned(Get(Payload, TimecodeKeys[i]).v)
           /\ NoneOf(Payload, TimecodeKeys, UsableTimecode) => call.out = Returned(sZeroTc)

\* C17: derive_active_clip_name returns the placeholder for an absent clip,
\* the first usable string among name, clipName, title, filename for a clip
\* document, and "Unnamed" for a clip document with none, {} included.
C17_ClipName ==
    call.fn \in ClipNameFns
        => /\ Payload = JNull => call.out = Returned(sDash)
           /\ IsDoc(Payload)
                 => /\ \A i \in 1..Len(ClipNameKeys) :
                          FirstOf(Payload, ClipNameKeys, i, IsNonBlankStr)
                             => call.out = Returned(Get(Payload, ClipNameKeys[i]).v)
                    /\ NoneOf(Payload, ClipNameKeys, IsNonBlankStr)
                          => call.out = Returned(sUnnamed)

\* the same for src/v2.py and every clip document but {}
C17_ClipNameNonEmptyV2 ==
    (call.fn = "derive_active_clip_name" /\ IsDoc(Payload) /\ DOMAIN Payload.v # {})
        => /\ \A i \in 1..Len(ClipNameKeys) :
                 FirstOf(Payload, ClipNameKeys, i, IsNonBlankStr)
                    => call.out = Returned(Get(Payload, ClipNameKeys[i]).v)
           /\ NoneOf(Payload, ClipNameKeys, IsNonBlankStr) => call.out = Returned(sUnnamed)

\* C18: derive_state, derive_timecode and derive_active_clip_name raise for
\* no payload: each returns a text.
C18_DeriveNeverRaises ==
    call.fn \in {"derive_state", "derive_timecode", "derive_active_clip_name"}
        => ~call.out.raised

\* C19: every call of the client sends at least one and at most
\* MAX_RETRIES requests: get_transport and the clip requests of a connected
\* poll, the status request of a probe, the POST of a command.
C19_RequestsPerCall ==
    /\ (lastOp.op = "refresh_state" /\ lastOp.connected)
          => Len(Requests("transports", "")) \in 1..MAX_RETRIES
    /\ (lastOp.op = "refresh_state" /\ lastOp.probes = 1)
          => Len(Requests("status", "")) \in 1..MAX_RETRIES
    /\ (lastOp.op = "refresh_state" /\ lastOp.clip # "none")
          => Len(Requests("clips", "active")) \in 1..MAX_RETRIES
    /\ (lastOp.op \in CommandOps /\ ~lastOp.raised)
          => Len(lastOp.http) \in 1..MAX_RETRIES

\* C19 for the retry loop alone: one request per attempt, at most
\* MAX_RETRIES, each but the last one failed, and the loop ends at the first
\* success.
C19_AttemptsInLoop ==
    /\ rw.loop.sent = Len(rw.log)
    /\ Len(rw.log) <= MAX_RETRIES
    /\ \A i \in 1..(Len(rw.log) - 1) : ~AttemptSucceeds(rw.log[i])
    /\ rw.loop.pc # "running" => Len(rw.log) >= 1
    /\ (Len(rw.log) >= 1 /\ AttemptSucceeds(rw.log[Len(rw.log)])) => rw.loop.pc = "returned"

\* C20: the loop has slept 0.5 * 2^a after every failed attempt a (from 0)
\* that was not the last one, and at no other time: after k such attempts
\* 0.5 * (2^k - 1) in all, 1.5 after three failed attempts (here in ms).
C20_BackoffSchedule ==
    LET sleeps == IF rw.loop.pc = "running" THEN Len(rw.log) ELSE Len(rw.log) - 1 IN
    /\ Len(rw.log) >= 1 => rw.loop.slept = 500 * (2 ^ sleeps - 1)
    /\ Len(rw.log) = 0 => rw.loop.slept = 0
    /\ (rw.loop.pc = "raised") => rw.loop.slept = 1500
    /\ (Len(rw.log) = 1 /\ rw.loop.pc = "running") => rw.loop.slept = 500
    /\ (Len(rw.log) = 2 /\ rw.loop.pc = "running") => rw.loop.slept = 1500

\* all three attempts failed: two sleeps, 500 ms and 1000 ms
C20_Witness ==
    /\ rw.loop.pc = "raised"
    /\ Len(rw.log) = MAX_RETRIES
    /\ rw.loop.slept = 1500

(***************************************************************************)
(* The poll cycle                                                          *)
(***************************************************************************)
Polled == lastOp.op = "refresh_state" /\ ~lastOp.raised

\* C21: a poll cycle that finds the device disconnected leaves one timer of
\* 5000 ms for the next poll; a cycle that finds it connected leaves one of
\* 1000 ms, whether its transport fetch succeeded, was served from the cache
\* or failed.
C21_PollInterval ==
    Polled =>
        timers = <<IF lastOp.connected THEN POLL_INTERVAL_MS
                   ELSE POLL_INTERVAL_MS_DISCONNECTED>>

C21_Witness ==
    /\ Polled /\ ~lastOp.connected /\ lastOp.probes = 1
    /\ timers = <<POLL_INTERVAL_MS_DISCONNECTED>>

\* a connected cycle with a failed fetch is followed after 1000 ms as well
C21_FailedFetchReached ==
    /\ Polled /\ lastOp.connected /\ lastOp.gt = "failed"
    /\ timers = <<POLL_INTERVAL_MS>>

DataRequest(r) == r.res \in {"transports", "clips"}

\* C22: in the requests of one poll cycle every status request comes before
\* every transport or clip request; a cycle that finds the device
\* disconnected sends no transport or clip request and shows state
\* "Offline" with timecode and clip name at the placeholder.
C22_StatusFirst ==
    Polled =>
        /\ \A i, j \in 1..Len(lastOp.http) :
              lastOp.http[i].res = "status" /\ DataRequest(lastOp.http[j]) => i < j
        /\ ~lastOp.connected =>
              /\ \A i \in 1..Len(lastOp.http) : ~DataRequest(lastOp.http[i])
              /\ state_var = sOffline /\ tc_var = sDash /\ clip_var = sDash

\* a probe that failed after a cycle had shown data of the device
C22_Witness ==
    /\ Polled /\ ~lastOp.connected /\ lastOp.probes = 1
    /\ Len(lastOp.http) >= 1
    /\ state_var = sOffline
    /\ last_transport_json # EmptyDict

\* a connected cycle that probed and then fetched
C22_ProbeThenFetchReached ==
    /\ Polled /\ lastOp.connected /\ lastOp.probes = 1
    /\ \E j \in 1..Len(lastOp.http) : DataRequest(lastOp.http[j])

\* C23: a poll cycle whose transport fetch failed shows an error indicator
\* in the state field.
C23_FailedFetchShowsError ==
    Polled /\ lastOp.connected /\ lastOp.gt = "failed" =>
        state_var \in {sError, sNetworkError}

\* the part of C23 that holds: such a cycle leaves timecode and clip name
C23_FailedFetchKeepsTimecodeAndClip ==
    [][lastOp'.op = "refresh_state" /\ lastOp'.gt = "failed" =>
          tc_var' = tc_var /\ clip_var' = clip_var]_vars

\* C24: after a poll cycle that published state, timecode and clip name, the
\* transport snapshot behind state and timecode was fetched from the device
\* in that cycle, like the clip behind the clip name.
C24_DisplayFromOneCycle ==
    Polled /\ lastOp.published /\ lastOp.clip \in {"direct", "fallback"} =>
        lastOp.gt = "fetched"

\* C25: at most one poll is pending, and a poll cycle that has run leaves
\* exactly one pending poll, its successor; no other handler adds one.
C25_OnePollPending ==
    /\ Len(timers) <= 1
    /\ lastOp.op = "refresh_state" => Len(timers) = 1

\* the parts of C25 that hold: never two pending polls, and only a poll
\* cycle sets a timer
C25_AtMostOnePending == Len(timers) <= 1

C25_OnlyPollSchedules ==
    [][lastOp'.op # "refresh_state" => Len(timers') <= Len(timers)]_vars

(***************************************************************************)
(* get_active_clip                                                         *)
(***************************************************************************)
ClipFns == {"get_active_clip", "get_active_clip_v1"}

\* the items of the clip list the device answered with, <<>> when it has none
ListedItems(lbody) ==
    IF lbody.kind # "json" THEN <<>>
    ELSE LET items == IF lbody.val.t = "dict" THEN Get(lbody.val, "items") ELSE lbody.val
         IN IF items.t = "list" THEN items.v ELSE <<>>

\* the places of the entries whose active flag is the boolean true
ActiveAt(items) ==
    {i \in 1..Len(items) : items[i].t = "dict" /\ Get(items[i], "active") = JBool(TRUE)}

FirstActive(items) ==
    IF ActiveAt(items) = {} THEN JNull
    ELSE items[CHOOSE i \in ActiveAt(items) : \A j \in ActiveAt(items) : i <= j]

\* C26: when get_active_clip has sent the clip-list request and it was
\* answered, the call returns the first listed entry whose active flag is the
\* boolean true, and None when no entry has it (active = 1 or "true" do not
\* count).
C26_FallbackFirstActive ==
    call.fn \in ClipFns /\ call.out.list.pc = "returned" =>
        call.out.val = FirstActive(ListedItems(call.arg.lbody))

\* the other sentence of C26: the clip-list request is sent only after the
\* direct request has raised with its retries used up
C26_FallbackAfterExhaustion ==
    call.fn \in ClipFns /\ call.out.list.sent > 0 =>
        /\ call.out.direct.pc = "raised"
        /\ call.fn = "get_active_clip" => call.out.direct.sent = MAX_RETRIES

\* the parts of C26 that hold: the list is asked for only when the direct
\* request gave no clip; an entry is returned only if its flag is the boolean
\* true and no entry before it has it; a list of objects none of which has it
\* gives None
C26_FallbackOnlyAfterDirect ==
    call.fn \in ClipFns /\ call.out.list.sent > 0 =>
        \/ call.out.direct.pc = "raised"
        \/ call.arg.body.kind # "json"

C26_ReturnedIsFirstActive ==
    call.fn \in ClipFns /\ call.out.how = "fallback" =>
        call.out.val = FirstActive(ListedItems(call.arg.lbody))

C26_ReturnedReached ==
    /\ call.fn = "get_active_clip" /\ call.out.how = "fallback"
    /\ call.out.val = ClipNamed(sClipB, JBool(TRUE))
    /\ Len(ListedItems(call.arg.lbody)) = 3

\* C27: a string that derive_state returns from a candidate field has no
\* leading or trailing whitespace.
C27_StateTrimmed ==
    /\ call.fn \in StateFns
    /\ ~call.out.raised
    /\ \E k \in 1..Len(StateKeys) :
          /\ IsNonBlankStr(Get(call.arg.val, StateKeys[k]))
          /\ call.out.value = Get(call.arg.val, StateKeys[k]).v
    => call.out.value = Strip(call.out.value)

(***************************************************************************)
(* The endpoint                                                            *)
(***************************************************************************)
\* C28: applying a custom address that normalizes to the empty string shows
\* the "Invalid URL" error and leaves the client, the connection manager,
\* the remembered custom URL and the text of the entry as they were.
C28_InvalidUrlRejected ==
    [][lastOp'.op = "apply_custom_url"
          /\ normalize_base_url(Strip(base_url_var)) = <<>>
       => /\ lastOp'.shown = "Invalid URL"
          /\ client' = client
          /\ connection_manager' = connection_manager
          /\ last_custom_url' = last_custom_url
          /\ base_url_var' = base_url_var]_vars

\* rejected while a custom URL applied earlier is remembered and in use
C28_Witness ==
    /\ lastOp.op = "apply_custom_url"
    /\ lastOp.shown = "Invalid URL"
    /\ IsBlank(base_url_var)
    /\ last_custom_url = sUrlH
    /\ client.base_url = sUrlH

\* the number of places where sub occurs in s
Occurrences(s, sub) ==
    Cardinality({i \in 1..(Len(s) - Len(sub) + 1) : SubSeq(s, i, i + Len(sub) - 1) = sub})

\* C29: normalize_base_url returns the empty string or a text that begins
\* with http:// or https://, holds the control path once and ends with
\* /control/api/v1/ after something other than a slash; normalizing what it
\* returned gives the same text again.
C29_NormalForm ==
    call.fn = "normalize_base_url" =>
        LET out == call.out.value IN
        \/ out = <<>>
        \/ /\ StartsWith(out, sHttp) \/ StartsWith(out, sHttps)
           /\ EndsWith(out, sControl \o <<"/">>)
           /\ ~EndsWith(out, <<"/">> \o sControl \o <<"/">>)
           /\ Occurrences(Lower(out), sControl) = 1
           /\ normalize_base_url(out) = out

\* the part of C29 that holds: a text without the control path at its end
\* gets scheme, one control path and one final slash
C29_BareHostNormalForm ==
    /\ call.fn = "normalize_base_url"
    /\ ~IsBlank(call.arg.raw)
    /\ Occurrences(Lower(call.arg.raw), sControl) = 0
    => LET out == call.out.value IN
       /\ StartsWith(Lower(out), sHttp) \/ StartsWith(Lower(out), sHttps)
       /\ EndsWith(out, sControl \o <<"/">>)
       /\ ~EndsWith(out, <<"/">> \o sControl \o <<"/">>)
       /\ Occurrences(Lower(out), sControl) = 1

(***************************************************************************)
(* The connection tracker                                                  *)
(***************************************************************************)
\* C30: a command handler leaves is_connected and the time of the last check
\* as they were, whether its POST succeeded or failed, and sends the POST
\* whatever is_connected is; a poll cycle changes them only through
\* check_connection: not at all while the last check is valid, and otherwise
\* to the result of the probe and the time of the call, whatever
\* get_transport and get_active_clip did afterwards.
C30_OnlyCheckChangesTracker ==
    [][/\ lastOp'.op \in CommandOps =>
             /\ connection_manager' = connection_manager
             /\ ~lastOp'.raised => Len(lastOp'.http) >= 1
       /\ lastOp'.op = "refresh_state" =>
             connection_manager' =
                IF lastOp'.probes = 0 THEN connection_manager
                ELSE [connection_manager EXCEPT !.is_connected = lastOp'.connected,
                                                !.age = 0]]_vars

\* a command sent, and answered, while the tracker's valid value is
\* "disconnected"
C30_Witness ==
    /\ lastOp.op \in CommandOps
    /\ lastOp.cmd = "ok"
    /\ Len(lastOp.http) >= 1
    /\ ~connection_manager.is_connected
    /\ connection_manager.age < connection_check_interval

\* a failed command, and a failed fetch, with the tracker still "connected"
C30_FailedCommandReached ==
    /\ lastOp.op \in CommandOps
    /\ lastOp.cmd \notin {"ok", "none"}
    /\ connection_manager.is_connected

C30_FailedFetchReached ==
    /\ lastOp.op = "refresh_state" /\ lastOp.gt = "failed" /\ lastOp.probes = 0
    /\ connection_manager.is_connected

(***************************************************************************)
(* The cache after a failure, and recovery                                 *)
(***************************************************************************)
\* the transport indices the spinbox can select
Indices == {IntOfDigits(t) : t \in {u \in IdxTexts : IsDigits(u)}}

Cached(cch, idx) == CacheFind(cch, client.id, idx) # 0

\* C31: a get_transport call that failed leaves no cache entry for its
\* index; an entry for an index appears only by a call that fetched it; and
\* a call for an index without entry sends GET transports/{idx} to the
\* device.  So the call that follows a failed one for the same index asks
\* the device again.
C31_FailureNotCached ==
    [][/\ lastOp'.op = "refresh_state" /\ lastOp'.gt = "failed" =>
             /\ ~Cached(cache', transport_idx')
             /\ cache' = cache
       /\ \A i \in Indices :
             Cached(cache', i) /\ ~Cached(cache, i) =>
                /\ lastOp'.op = "refresh_state"
                /\ lastOp'.gt = "fetched"
                /\ transport_idx' = i
       /\ lastOp'.op = "refresh_state" /\ lastOp'.connected
             /\ ~Cached(cache, transport_idx') =>
                /\ lastOp'.gt \in {"fetched", "failed"}
                /\ \E j \in 1..Len(lastOp'.http) :
                      lastOp'.http[j] = Req("GET", "transports", transport_idx', "")]_vars

\* a fetch that failed after an earlier one had succeeded: nothing is cached
C31_Witness ==
    /\ lastOp.op = "refresh_state" /\ lastOp.gt = "failed"
    /\ Len(Requests("transports", "")) = MAX_RETRIES
    /\ last_transport_json # EmptyDict
    /\ ~Cached(cache, transport_idx)

\* a fetch that asked the device while the state field still shows the
\* error of an earlier, failed fetch
C31_RefetchReached ==
    /\ lastOp.op = "refresh_state" /\ lastOp.gt = "fetched"
    /\ Len(Requests("transports", "")) >= 1
    /\ state_var \in {sError, sNetworkError}

\* from this step on the device answers the probe with 200
ProbeAnswered ==
    lastOp'.op = "refresh_state" /\ lastOp'.probes = 1 => lastOp'.connected

\* C32: if from some time on every probe is answered, the poll loop
\* reports Connected from some time on and again and again sends the
\* transport request of a connected cycle.
C32_RecoveryResumesFetching ==
    <>[][ProbeAnswered]_vars =>
        /\ <>[](connection_var = sConnected)
        /\ []<>(/\ lastOp.op = "refresh_state" /\ lastOp.connected
                /\ Len(Requests("transports", "")) >= 1)

\* the parts of C32 that hold: the poll that follows a disconnected one
\* finds the last check older than the validity window and probes again
C32_ProbeAfterDisconnected ==
    ~connection_manager.is_connected /\ Len(timers) = 1 =>
        connection_manager.age + timers[1] >= connection_check_interval

\* and if the index text is an integer throughout and from some time on
\* every probe is answered, the loop reports Connected from some time on and
\* runs connected cycles again and again
C32_RecoveryDetected ==
    [](IsDigits(idx_var)) /\ <>[][ProbeAnswered]_vars =>
        /\ <>[](connection_var = sConnected)
        /\ []<>(lastOp.op = "refresh_state" /\ lastOp.connected)

\* a connected cycle after an outage, the transport served from the cache
C32_StaleAfterRecoveryReached ==
    /\ lastOp.op = "refresh_state" /\ lastOp.connected /\ lastOp.probes = 1
    /\ lastOp.gt = "hit"
    /\ state_var # sOffline

====
